---- MODULE Spec2Model ----
(***************************************************************************)
(* A model of sfnt-p.py (SFNT Proofer): the FileParser class, which reads  *)
(* the table directories of a font file or collection and decodes the      *)
(* 'name' and GSUB/GPOS tables on demand, and the DirectoryWidget handlers *)
(* that call it.                                                           *)
(*                                                                         *)
(* A file is a sequence of bytes (0..255).  Offsets are 0-based as in the  *)
(* source; sequences are 1-based, so the byte at offset o is data[o + 1].  *)
(* A call that may raise returns a record [ok, val, exc].                  *)
(***************************************************************************)
EXTENDS Integers, Sequences, FiniteSets, TLC

VARIABLES
    font_list,    \* FileParser.font_list, the class attribute of line 48
    parsers,      \* the FileParser instances built so far: parsers[i] is self.data
    offset_list,  \* the local offset_list of the last __init__ (<<>> when not assigned)
    error,        \* what the except branch of the last __init__ caught, or "none"
    dialog        \* what the last show_* handler put on screen, or how it ended

vars == <<font_list, parsers, offset_list, error, dialog>>

\* ------------------------------------------------------------------ bounds

\* How many files are loaded in one process.
MaxLoads == 2

\* How many fonts a generated collection header declares at most.
MaxFonts == 2

\* How many name records a generated 'name' table holds at most.
MaxNameRecs == 2

\* How many tagged LangSys records a generated script holds at most.
MaxLangSys == 1

\* ------------------------------------------------------- results of a call

Ok(v) == [ok |-> TRUE, val |-> v, exc |-> "none"]

Raise(e) == [ok |-> FALSE, val |-> <<>>, exc |-> e]

\* --------------------------------------------------------- struct (line 3)

\* struct.unpack_from(fmt, buffer, offset) raises struct.error unless the
\* buffer holds calcsize(fmt) bytes from offset on.
CanUnpack(data, offset, size) == offset + size <= Len(data)

\* ">H": an unsigned big-endian 16-bit value.
UnpackH(data, offset) == data[offset + 1] * 256 + data[offset + 2]

\* ">L": an unsigned big-endian 32-bit value.
UnpackL(data, offset) ==
    ((data[offset + 1] * 256 + data[offset + 2]) * 256 + data[offset + 3]) * 256
        + data[offset + 4]

\* ">4s": four raw bytes.
Unpack4s(data, offset) == SubSeq(data, offset + 1, offset + 4)

\* The two single-font signatures, 'OTTO' and 0x00010000.
SFNT_MAGIC_1 == {1330926671, 65536}

\* The collection signature, 'ttcf'.
SFNT_MAGIC_N == {1953784678}

\* ------------------------------------------------- FileParser, lines 60-75

\* parse_offset_list reading the offsets array after a 16-byte header.
parse_offset_list_at16(data) ==
    IF ~CanUnpack(data, 0, 4) THEN Raise("struct.error")
    ELSE LET magic == UnpackL(data, 0) IN
         IF magic \in SFNT_MAGIC_N
         THEN IF ~CanUnpack(data, 0, 12) THEN Raise("struct.error")
              ELSE LET count == UnpackL(data, 8) IN
                   IF ~CanUnpack(data, 16, 4 * count) THEN Raise("struct.error")
                   ELSE Ok([i \in 1..count |-> UnpackL(data, 16 + 4 * (i - 1))])
         ELSE IF magic \in SFNT_MAGIC_1 THEN Ok(<<0>>)
         ELSE Ok(<<>>)

\* parse_offset_list taking every file that is no collection for a single font.
parse_offset_list_else0(data) ==
    IF ~CanUnpack(data, 0, 4) THEN Raise("struct.error")
    ELSE LET magic == UnpackL(data, 0) IN
         IF magic \in SFNT_MAGIC_N
         THEN IF ~CanUnpack(data, 0, 12) THEN Raise("struct.error")
              ELSE LET count == UnpackL(data, 8) IN
                   IF ~CanUnpack(data, 12, 4 * count) THEN Raise("struct.error")
                   ELSE Ok([i \in 1..count |-> UnpackL(data, 12 + 4 * (i - 1))])
         ELSE Ok(<<0>>)

parse_offset_list(data) ==
    IF ~CanUnpack(data, 0, 4) THEN Raise("struct.error")
    ELSE LET magic == UnpackL(data, 0) IN
         IF magic \in SFNT_MAGIC_N
         THEN IF ~CanUnpack(data, 0, 12) THEN Raise("struct.error")
              ELSE LET count == UnpackL(data, 8) IN
                   IF ~CanUnpack(data, 12, 4 * count) THEN Raise("struct.error")
                   ELSE Ok([i \in 1..count |-> UnpackL(data, 12 + 4 * (i - 1))])
         ELSE IF magic \in SFNT_MAGIC_1 THEN Ok(<<0>>)
         ELSE Ok(<<>>)

\* One table record of the directory: (tag, checksum, offset, length).
UnpackTable(data, offset) ==
    <<Unpack4s(data, offset), UnpackL(data, offset + 4),
      UnpackL(data, offset + 8), UnpackL(data, offset + 12)>>

\* The loop of parse_one from index x on, table_list being what it has read.
RECURSIVE parse_one_loop(_, _, _, _, _)
parse_one_loop(data, offset, count, x, table_list) ==
    IF x >= count THEN Ok(table_list)
    ELSE IF ~CanUnpack(data, offset + 12 + 16 * x, 16) THEN Raise("struct.error")
    ELSE parse_one_loop(data, offset, count, x + 1,
                        Append(table_list, UnpackTable(data, offset + 12 + 16 * x)))

\* parse_one keeping only the first record of each tag.
RECURSIVE FirstOfEachTag(_, _, _)
FirstOfEachTag(tables, k, kept) ==
    IF k > Len(tables) THEN kept
    ELSE IF \E j \in DOMAIN kept : kept[j][1] = tables[k][1]
    THEN FirstOfEachTag(tables, k + 1, kept)
    ELSE FirstOfEachTag(tables, k + 1, Append(kept, tables[k]))

parse_one_dedup(data, offset) ==
    IF ~CanUnpack(data, offset, 12) THEN Raise("struct.error")
    ELSE LET r == parse_one_loop(data, offset, UnpackH(data, offset + 4), 0, <<>>) IN
         IF ~r.ok THEN r ELSE Ok(FirstOfEachTag(r.val, 1, <<>>))

parse_one(data, offset) ==
    IF ~CanUnpack(data, offset, 12) THEN Raise("struct.error")
    ELSE parse_one_loop(data, offset, UnpackH(data, offset + 4), 0, <<>>)

\* The for loop of __init__ from the i-th offset on: fl is the font list so
\* far.  The first parse_one that raises ends the loop (the try encloses it).
RECURSIVE init_loop(_, _, _, _)
init_loop(data, offsets, i, fl) ==
    IF i > Len(offsets) THEN [font_list |-> fl, error |-> "none"]
    ELSE LET font == parse_one(data, offsets[i]) IN
         IF ~font.ok THEN [font_list |-> fl, error |-> font.exc]
         ELSE init_loop(data, offsets, i + 1, Append(fl, font.val))

\* FileParser.__init__ on a file holding `data`, the class attribute being fl.
FileParserInit(data, fl) ==
    LET r == parse_offset_list(data) IN
    IF ~r.ok THEN [font_list |-> fl, offset_list |-> <<>>, error |-> r.exc]
    ELSE LET l == init_loop(data, r.val, 1, fl) IN
         [font_list |-> l.font_list, offset_list |-> r.val, error |-> l.error]

\* ----------------------------------------------------- bytes.decode(codec)
\* A decoded string is the sequence of its code points.

\* utf_16_be: two bytes a code unit; a high surrogate takes the low surrogate
\* after it; an odd byte left over, a high surrogate with no low one after it
\* and a low surrogate on its own are errors.
RECURSIVE decode_utf_16_be(_, _, _)
decode_utf_16_be(b, i, out) ==
    IF i > Len(b) THEN Ok(out)
    ELSE IF i = Len(b) THEN Raise("UnicodeDecodeError")
    ELSE LET u == b[i] * 256 + b[i + 1] IN
         IF u < 55296 \/ u > 57343 THEN decode_utf_16_be(b, i + 2, Append(out, u))
         ELSE IF u >= 56320 THEN Raise("UnicodeDecodeError")
         ELSE IF i + 3 > Len(b) THEN Raise("UnicodeDecodeError")
         ELSE LET v == b[i + 2] * 256 + b[i + 3] IN
              IF v < 56320 \/ v > 57343 THEN Raise("UnicodeDecodeError")
              ELSE decode_utf_16_be(b, i + 4,
                       Append(out, 65536 + (u - 55296) * 1024 + (v - 56320)))

\* The double-byte codecs map a byte below 0x80 to itself and a (lead, trail)
\* pair through the codec's table.  MultibytePairs is the part of each table
\* the model holds, <<lead, trail, code point>> with code point 0 for a pair
\* the codec rejects; the bytes 0x80 and 0xFF lead no pair in any of the four.
\* The input files use no other pair: one would end in "LookupOutsideModel",
\* which no run reaches.
MultibytePairs(codec) ==
    CASE codec = "cp936" -> { <<214, 208, 20013>>, <<164, 65, 0>> }
      [] codec = "cp950" -> { <<164, 164, 20013>>, <<136, 97, 0>> }
      [] codec = "cp949" -> { <<176, 161, 44032>>, <<214, 65, 0>> }
      [] codec = "johab" -> { <<136, 97, 44032>>, <<214, 208, 0>> }

RECURSIVE decode_multibyte(_, _, _, _)
decode_multibyte(codec, b, i, out) ==
    IF i > Len(b) THEN Ok(out)
    ELSE IF b[i] < 128 THEN decode_multibyte(codec, b, i + 1, Append(out, b[i]))
    ELSE IF b[i] \in {128, 255} \/ i = Len(b) THEN Raise("UnicodeDecodeError")
    ELSE LET hit == { p \in MultibytePairs(codec) : p[1] = b[i] /\ p[2] = b[i + 1] } IN
         IF hit = {} THEN Raise("LookupOutsideModel")
         ELSE LET p == CHOOSE q \in hit : TRUE IN
              IF p[3] = 0 THEN Raise("UnicodeDecodeError")
              ELSE decode_multibyte(codec, b, i + 2, Append(out, p[3]))

\* utf-8 ("u8"), as the tags are decoded.
Cont(b, i) == i <= Len(b) /\ b[i] >= 128 /\ b[i] <= 191

RECURSIVE decode_u8(_, _, _)
decode_u8(b, i, out) ==
    IF i > Len(b) THEN Ok(out)
    ELSE LET c == b[i] IN
         IF c < 128 THEN decode_u8(b, i + 1, Append(out, c))
         ELSE IF c >= 194 /\ c <= 223 /\ Cont(b, i + 1)
         THEN decode_u8(b, i + 2, Append(out, (c - 192) * 64 + (b[i + 1] - 128)))
         ELSE IF /\ c >= 224 /\ c <= 239 /\ Cont(b, i + 1) /\ Cont(b, i + 2)
                 /\ (c = 224 => b[i + 1] >= 160)
                 /\ (c = 237 => b[i + 1] <= 159)
         THEN decode_u8(b, i + 3,
                  Append(out, ((c - 224) * 64 + (b[i + 1] - 128)) * 64 + (b[i + 2] - 128)))
         ELSE IF /\ c >= 240 /\ c <= 244
                 /\ Cont(b, i + 1) /\ Cont(b, i + 2) /\ Cont(b, i + 3)
                 /\ (c = 240 => b[i + 1] >= 144)
                 /\ (c = 244 => b[i + 1] <= 143)
         THEN decode_u8(b, i + 4,
                  Append(out, (((c - 240) * 64 + (b[i + 1] - 128)) * 64
                                  + (b[i + 2] - 128)) * 64 + (b[i + 3] - 128)))
         ELSE Raise("UnicodeDecodeError")

\* ------------------------------------------------ FileParser, lines 77-104

\* data[start:start+length]: a slice stops at the end of the data, silently.
seg(data, start, length) ==
    SubSeq(data, start + 1, IF start + length < Len(data) THEN start + length ELSE Len(data))

\* The codec chosen by the encoding ID, lines 93-102.
decode_name(encoding_id, string_b) ==
    IF encoding_id = 4 THEN decode_multibyte("cp936", string_b, 1, <<>>)
    ELSE IF encoding_id = 5 THEN decode_multibyte("cp950", string_b, 1, <<>>)
    ELSE IF encoding_id = 6 THEN decode_multibyte("cp949", string_b, 1, <<>>)
    ELSE IF encoding_id = 7 THEN decode_multibyte("johab", string_b, 1, <<>>)
    ELSE decode_utf_16_be(string_b, 1, <<>>)

\* The platform test of line 91 taking every platform but 0.
IsWindowsNot0(entry) == entry[1] # 0

\* Line 91: only the records of platform 3 (Windows) are decoded.
IsWindows(entry) == entry[1] = 3

\* The six ">6H" fields of name record i.
UnpackEntry(data, i) == [k \in 1..6 |-> UnpackH(data, 6 + 12 * i + 2 * (k - 1))]

\* The loop of parse_name from record i on.  An entry is
\* (platform_id, encoding_id, language_id, name_id, string).
RECURSIVE parse_name_loop(_, _, _, _, _)
parse_name_loop(data, count, offset, i, name_list) ==
    IF i >= count THEN Ok(name_list)
    ELSE IF ~CanUnpack(data, 6 + 12 * i, 12) THEN Raise("struct.error")
    ELSE LET entry == UnpackEntry(data, i) IN
         IF IsWindows(entry)
         THEN LET string_b == seg(data, offset + entry[6], entry[5])
                  string_u == decode_name(entry[2], string_b)
              IN IF ~string_u.ok THEN Raise(string_u.exc)
                 ELSE parse_name_loop(data, count, offset, i + 1,
                          Append(name_list, SubSeq(entry, 1, 4) \o <<string_u.val>>))
         ELSE parse_name_loop(data, count, offset, i + 1, name_list)

parse_name(self_data, table) ==
    LET data == seg(self_data, table[3], table[4]) IN
    IF ~CanUnpack(data, 0, 6) THEN Raise("struct.error")
    ELSE parse_name_loop(data, UnpackH(data, 2), UnpackH(data, 4), 0, <<>>)

\* show_name, lines 198-215: the dialog's rows are the entries parse_name
\* returned; an exception leaves the handler before the dialog is built.
show_name(self_data, table) ==
    LET data == parse_name(self_data, table) IN
    IF data.ok THEN [kind |-> "name", table |-> table, data |-> data.val]
    ELSE [kind |-> "exception", table |-> table, exc |-> data.exc]

\* ----------------------------------------------- FileParser, lines 111-140

\* An optional value: None, or the value wrapped.
None == <<>>

Some(v) == <<v>>

\* struct.unpack_from(f">{f_count}H", data, offset).
UnpackFeatures(data, offset, f_count) ==
    IF ~CanUnpack(data, offset, 2 * f_count) THEN Raise("struct.error")
    ELSE Ok([k \in 1..f_count |-> UnpackH(data, offset + 2 * (k - 1))])

\* A LangSys table at lang_sys_offset: (required, feature).
UnpackLangSys(data, lang_sys_offset) ==
    IF ~CanUnpack(data, lang_sys_offset, 6) THEN Raise("struct.error")
    ELSE LET required == UnpackH(data, lang_sys_offset + 2)
             f_count == UnpackH(data, lang_sys_offset + 4)
             feature == UnpackFeatures(data, lang_sys_offset + 6, f_count)
         IN IF ~feature.ok THEN feature
            ELSE Ok([required |-> required, feature |-> feature.val])

\* The loop over the tagged LangSys records of one script, lines 128-133:
\* an entry is (lang_tag, required, feature).
RECURSIVE lang_sys_loop(_, _, _, _, _)
lang_sys_loop(data, s_offset, l_count, y, lang_sys) ==
    IF y >= l_count THEN Ok(lang_sys)
    ELSE IF ~CanUnpack(data, s_offset + 4 + 6 * y, 6) THEN Raise("struct.error")
    ELSE LET lang_tag == Unpack4s(data, s_offset + 4 + 6 * y)
             lang_sys_offset == UnpackH(data, s_offset + 4 + 6 * y + 4) + s_offset
             ls == UnpackLangSys(data, lang_sys_offset)
             tag == decode_u8(lang_tag, 1, <<>>)
         IN IF ~ls.ok THEN ls
            ELSE IF ~tag.ok THEN tag
            ELSE lang_sys_loop(data, s_offset, l_count, y + 1,
                     Append(lang_sys, <<tag.val, ls.val.required, ls.val.feature>>))

\* The default LangSys of a script, lines 120-126: its feature indices alone.
default_lang_sys_of(data, s_offset, default_lang_sys_offset) ==
    IF default_lang_sys_offset # 0
    THEN LET ls == UnpackLangSys(data, default_lang_sys_offset + s_offset) IN
         IF ~ls.ok THEN ls ELSE Ok(Some(ls.val.feature))
    ELSE Ok(None)

\* The loop over the script records, lines 116-134: an entry is
\* (script_tag, default_lang_sys, lang_sys).
RECURSIVE script_loop(_, _, _, _, _)
script_loop(data, s_list_offset, s_list_count, x, s_list) ==
    IF x >= s_list_count THEN Ok(s_list)
    ELSE IF ~CanUnpack(data, s_list_offset + 2 + 6 * x, 6) THEN Raise("struct.error")
    ELSE LET script_tag == Unpack4s(data, s_list_offset + 2 + 6 * x)
             s_offset == UnpackH(data, s_list_offset + 2 + 6 * x + 4) + s_list_offset
         IN IF ~CanUnpack(data, s_offset, 4) THEN Raise("struct.error")
            ELSE LET default_lang_sys ==
                         default_lang_sys_of(data, s_offset, UnpackH(data, s_offset))
                     l_count == UnpackH(data, s_offset + 2)
                 IN IF ~default_lang_sys.ok THEN default_lang_sys
                    ELSE LET lang_sys == lang_sys_loop(data, s_offset, l_count, 0, <<>>)
                             tag == decode_u8(script_tag, 1, <<>>)
                         IN IF ~lang_sys.ok THEN lang_sys
                            ELSE IF ~tag.ok THEN tag
                            ELSE script_loop(data, s_list_offset, s_list_count, x + 1,
                                     Append(s_list,
                                         <<tag.val, default_lang_sys.val, lang_sys.val>>))

\* The loop over the feature records, lines 137-139.
RECURSIVE feature_loop(_, _, _, _, _)
feature_loop(data, f_list_offset, f_list_count, x, f_list) ==
    IF x >= f_list_count THEN Ok(f_list)
    ELSE IF ~CanUnpack(data, f_list_offset + 2 + 6 * x, 6) THEN Raise("struct.error")
    ELSE LET tag == decode_u8(Unpack4s(data, f_list_offset + 2 + 6 * x), 1, <<>>) IN
         IF ~tag.ok THEN tag
         ELSE feature_loop(data, f_list_offset, f_list_count, x + 1, Append(f_list, tag.val))

\* Returns (s_list, f_list).
parse_gsub_gpos(self_data, table) ==
    LET data == seg(self_data, table[3], table[4]) IN
    IF ~CanUnpack(data, 0, 10) THEN Raise("struct.error")
    ELSE LET s_list_offset == UnpackH(data, 4)
             f_list_offset == UnpackH(data, 6)
         IN IF ~CanUnpack(data, s_list_offset, 2) THEN Raise("struct.error")
            ELSE LET s_list == script_loop(data, s_list_offset,
                                           UnpackH(data, s_list_offset), 0, <<>>)
                 IN IF ~s_list.ok THEN s_list
                    ELSE IF ~CanUnpack(data, f_list_offset, 2) THEN Raise("struct.error")
                    ELSE LET f_list == feature_loop(data, f_list_offset,
                                                    UnpackH(data, f_list_offset), 0, <<>>)
                         IN IF ~f_list.ok THEN f_list
                            ELSE Ok(<<s_list.val, f_list.val>>)

\* ------------------------------------------- DirectoryWidget, lines 253-292

\* list[l]: an index at or past the end raises IndexError.
GetItem(list, l) == IF l < Len(list) THEN Ok(list[l + 1]) ELSE Raise("IndexError")

\* The range test letting the index one past the end through.
InRangeOffByOne(l, f_count) == l <= f_count

\* Whether feature index l is resolved to a tag, lines 275 and 285.
InRange(l, f_count) == l < f_count

\* The items of one tag widget, lines 274-276 and 284-289: for each index of
\* l_list in range, the feature tag and whether it is coloured as the required
\* one.  The default LangSys has no required index (l_req is None).
RECURSIVE tag_items(_, _, _, _, _)
tag_items(f_list, l_list, l_req, k, items) ==
    IF k > Len(l_list) THEN Ok(items)
    ELSE LET l == l_list[k] IN
         IF InRange(l, Len(f_list))
         THEN LET t == GetItem(f_list, l) IN
              IF ~t.ok THEN t
              ELSE tag_items(f_list, l_list, l_req, k + 1,
                       Append(items, [text |-> t.val, red |-> l_req = Some(l)]))
         ELSE tag_items(f_list, l_list, l_req, k + 1, items)

\* The label and tag widget of each tagged LangSys of a script, lines 278-290.
RECURSIVE lang_widgets(_, _, _, _)
lang_widgets(f_list, s_list, k, widgets) ==
    IF k > Len(s_list) THEN Ok(widgets)
    ELSE LET items == tag_items(f_list, s_list[k][3], Some(s_list[k][2]), 1, <<>>) IN
         IF ~items.ok THEN items
         ELSE lang_widgets(f_list, s_list, k + 1,
                  Append(widgets, [label |-> s_list[k][1], l_req |-> Some(s_list[k][2]),
                                   items |-> items.val]))

\* "DFLT"
LabelDFLT == <<68, 70, 76, 84>>

\* The widgets of one script's group box, lines 266-290.  `if s_dflt` is false
\* for None and for an empty tuple of indices.
script_group(f_list, s) ==
    LET s_dflt == s[2]
        dflt == IF s_dflt # None /\ s_dflt[1] # <<>>
                THEN tag_items(f_list, s_dflt[1], None, 1, <<>>)
                ELSE Ok(<<>>)
    IN IF ~dflt.ok THEN dflt
       ELSE lang_widgets(f_list, s[3], 1,
                IF s_dflt # None /\ s_dflt[1] # <<>>
                THEN <<[label |-> LabelDFLT, l_req |-> None, items |-> dflt.val]>>
                ELSE <<>>)

RECURSIVE script_groups(_, _, _, _)
script_groups(f_list, s_list, k, groups) ==
    IF k > Len(s_list) THEN Ok(groups)
    ELSE LET g == script_group(f_list, s_list[k]) IN
         IF ~g.ok THEN g
         ELSE script_groups(f_list, s_list, k + 1,
                  Append(groups, [title |-> s_list[k][1], widgets |-> g.val]))

\* show_gsub_gpos: what parse_gsub_gpos returned and the group boxes built
\* from it; an exception leaves the handler before the dialog is built.
show_gsub_gpos(self_data, table) ==
    LET data == parse_gsub_gpos(self_data, table) IN
    IF ~data.ok THEN [kind |-> "exception", table |-> table, exc |-> data.exc]
    ELSE LET groups == script_groups(data.val[2], data.val[1], 1, <<>>) IN
         IF ~groups.ok THEN [kind |-> "exception", table |-> table, exc |-> groups.exc]
         ELSE [kind |-> "layout", table |-> table, data |-> data.val, groups |-> groups.val]

\* ------------------------------------------------------------ input files
\* The files the model loads, written byte for byte in the layout the parser
\* reads.

PackH(n) == <<(n \div 256) % 256, n % 256>>

PackL(n) == <<(n \div 16777216) % 256, (n \div 65536) % 256, (n \div 256) % 256, n % 256>>

RECURSIVE Flatten(_)
Flatten(ss) == IF ss = <<>> THEN <<>> ELSE Head(ss) \o Flatten(Tail(ss))

TagName == <<110, 97, 109, 101>>

TagHead == <<104, 101, 97, 100>>

TagGSUB == <<71, 83, 85, 66>>

TagGPOS == <<71, 80, 79, 83>>

\* The 16 bytes of a table record (tag, checksum, offset, length).
PackTable(t) == t[1] \o PackL(t[2]) \o PackL(t[3]) \o PackL(t[4])

\* A font directory: sfntVersion, numTables, three search fields, the records.
PackDirectory(version, numTables, tables) ==
    PackL(version) \o PackH(numTables) \o PackH(0) \o PackH(0) \o PackH(0)
        \o Flatten([i \in 1..Len(tables) |-> PackTable(tables[i])])

\* Directories of one record, and of three records that are not in tag order
\* and hold the tag 'name' twice.
TablesOne == <<(<<TagHead, 7, 28, 54>>)>>

TablesThree == <<(<<TagName, 1, 200, 40>>), (<<TagHead, 2, 60, 54>>), (<<TagName, 3, 300, 8>>)>>

SingleFontFiles ==
    { PackDirectory(v, Len(t), t) : v \in SFNT_MAGIC_1, t \in {<<>>, TablesOne, TablesThree} }
    \cup
    \* numTables declares more records than the file holds
    { PackDirectory(65536, 4, TablesThree), PackDirectory(1330926671, 1, <<>>) }

\* Files whose first four bytes are no accepted signature ('wOFF', 0x00020000,
\* 'true'), and files too short to hold a signature.
UnrecognizedFiles ==
    { PackL(2001684038) \o PackL(65536) \o PackH(1),
      PackL(131072),
      PackDirectory(1953658213, 1, TablesOne) }

ShortFiles == { <<>>, <<0, 1, 0>> }

\* A collection: the 12-byte header, the offsets array, then two directories.
\* The array is padded to MaxFonts entries so that the directories start at
\* fixed offsets.
FontBase == 12 + 4 * MaxFonts

FontOffsets == { FontBase, FontBase + 28, 5000 }

OffsetArrays == UNION { [1..n -> FontOffsets] : n \in 0..MaxFonts }

PackCollection(numFonts, offsets) ==
    PackL(1953784678) \o PackH(1) \o PackH(0) \o PackL(numFonts)
        \o Flatten([i \in 1..Len(offsets) |-> PackL(offsets[i])])
        \o [i \in 1..(4 * (MaxFonts - Len(offsets))) |-> 0]
        \o PackDirectory(65536, 1, TablesOne)
        \o PackDirectory(1330926671, 3, TablesThree)

CollectionFiles ==
    { PackCollection(Len(a), a) : a \in OffsetArrays }
    \cup
    \* a header cut before numFonts, and an array shorter than numFonts says
    { PackL(1953784678) \o PackH(1) \o PackH(0),
      PackL(1953784678) \o PackH(1) \o PackH(0) \o PackL(2) \o PackL(16) }

\* A single font whose directory holds one table, the table's bytes following
\* the directory at offset 28.
PackFontWith(tag, body) ==
    PackDirectory(1330926671, 1, <<(<<tag, 0, 28, Len(body)>>)>>) \o body

\* Name records to build 'name' tables from, <<platformId, encodingId, string
\* bytes, over>>: with `over` the record declares a length that ends two bytes
\* past the end of the table.
NameKinds ==
    { <<3, 1, <<0, 65>>, FALSE>>,             \* Windows, UTF-16BE "A"
      <<3, 1, <<216, 0>>, FALSE>>,            \* a high surrogate on its own
      <<3, 10, <<216, 61, 222, 0>>, FALSE>>,  \* U+1F600 as a surrogate pair
      <<3, 4, <<214, 208>>, FALSE>>,          \* cp936
      <<3, 4, <<65, 128>>, FALSE>>,           \* cp936, 0x80 leads nothing
      <<3, 5, <<164, 164>>, FALSE>>,          \* cp950
      <<3, 6, <<176, 161>>, FALSE>>,          \* cp949
      <<3, 7, <<136, 97>>, FALSE>>,           \* johab
      <<1, 0, <<65>>, FALSE>>,                \* Macintosh
      <<0, 3, <<0, 66>>, FALSE>>,             \* Unicode platform
      <<3, 1, <<0, 67>>, TRUE>> }             \* declared span leaves the table

RECURSIVE SumLen(_, _)
SumLen(recs, n) == IF n = 0 THEN 0 ELSE SumLen(recs, n - 1) + Len(recs[n][3])

PackNameRecord(recs, i) ==
    LET start == SumLen(recs, i - 1)
        length == IF recs[i][4] THEN SumLen(recs, Len(recs)) - start + 2
                  ELSE Len(recs[i][3])
    IN PackH(recs[i][1]) \o PackH(recs[i][2]) \o PackH(1033) \o PackH(i)
           \o PackH(length) \o PackH(start)

\* format, count, stringOffset, the records, the string storage.
PackNameTable(count, recs) ==
    PackH(0) \o PackH(count) \o PackH(6 + 12 * Len(recs))
        \o Flatten([i \in 1..Len(recs) |-> PackNameRecord(recs, i)])
        \o Flatten([i \in 1..Len(recs) |-> recs[i][3]])

NameRecordLists == UNION { [1..n -> NameKinds] : n \in 0..MaxNameRecs }

NameFiles ==
    { PackFontWith(TagName, PackNameTable(Len(r), r)) : r \in NameRecordLists }
    \cup
    \* count declares a record the table does not hold; a table of four bytes
    { PackFontWith(TagName, PackNameTable(2, <<(<<3, 1, <<0, 65>>, FALSE>>)>>)),
      PackFontWith(TagName, <<0, 0, 0, 1>>) }

\* LangSys tables to build GSUB/GPOS tables from, <<requiredFeatureIndex,
\* feature indices>>; the FeatureList built holds two features.
LangSysKinds ==
    { <<r, f>> : r \in {65535, 1},
                 f \in {<<>>, <<0>>, <<1, 0>>, <<2, 1>>, <<0, 5, 1>>} }

PackLangSys(ls) ==
    PackH(0) \o PackH(ls[1]) \o PackH(Len(ls[2]))
        \o Flatten([k \in 1..Len(ls[2]) |-> PackH(ls[2][k])])

RECURSIVE SumLangSys(_, _)
SumLangSys(tagged, n) ==
    IF n = 0 THEN 0 ELSE SumLangSys(tagged, n - 1) + Len(PackLangSys(tagged[n]))

\* 'TRK ', 'ROM ', ...: the k-th language tag.
LangTag(k) == <<83 + k, 82, 75, 32>>

\* A Script table: defaultLangSysOffset, langSysCount, the LangSys records,
\* then the default LangSys (dflt is None or Some of one) and the tagged ones.
PackScript(dflt, tagged) ==
    LET base == 4 + 6 * Len(tagged)
        dlen == IF dflt = None THEN 0 ELSE Len(PackLangSys(dflt[1]))
    IN PackH(IF dflt = None THEN 0 ELSE base) \o PackH(Len(tagged))
           \o Flatten([k \in 1..Len(tagged) |->
                          LangTag(k) \o PackH(base + dlen + SumLangSys(tagged, k - 1))])
           \o (IF dflt = None THEN <<>> ELSE PackLangSys(dflt[1]))
           \o Flatten([k \in 1..Len(tagged) |-> PackLangSys(tagged[k])])

ScriptTag(k) == IF k = 1 THEN <<108, 97, 116, 110>> ELSE <<68, 70, 76, 84>>

RECURSIVE SumScripts(_, _)
SumScripts(scripts, n) == IF n = 0 THEN 0 ELSE SumScripts(scripts, n - 1) + Len(scripts[n])

PackScriptList(scripts) ==
    PackH(Len(scripts))
        \o Flatten([k \in 1..Len(scripts) |->
                       ScriptTag(k) \o PackH(2 + 6 * Len(scripts) + SumScripts(scripts, k - 1))])
        \o Flatten(scripts)

\* 'liga', 'kern', with feature offsets the parser does not follow.
PackFeatureList(last) ==
    PackH(2) \o <<108, 105, 103, 97>> \o PackH(0) \o <<107, 101, 114, last>> \o PackH(0)

\* The header (versions, scriptListOffset, featureListOffset, lookupListOffset),
\* the ScriptList and the FeatureList.
PackLayoutTable(scripts, last) ==
    LET sl == PackScriptList(scripts) IN
    PackH(1) \o PackH(0) \o PackH(10) \o PackH(10 + Len(sl)) \o PackH(0)
        \o sl \o PackFeatureList(last)

TaggedLists == UNION { [1..n -> LangSysKinds] : n \in 0..MaxLangSys }

\* A second script with a default LangSys that has no required feature.
SecondScript == PackScript(Some(<<65535, <<1>>>>), <<>>)

LayoutFiles ==
    { PackFontWith(TagGSUB, PackLayoutTable(<<PackScript(d, t)>>, 110)) :
          d \in {None} \cup { Some(ls) : ls \in LangSysKinds }, t \in TaggedLists }
    \cup
    { PackFontWith(TagGPOS, PackLayoutTable(<<PackScript(None, t), SecondScript>>, 110)) :
          t \in TaggedLists }
    \cup
    \* a feature tag that is not UTF-8; a table cut inside its ScriptList
    { PackFontWith(TagGSUB, PackLayoutTable(<<SecondScript>>, 255)),
      PackFontWith(TagGSUB, SubSeq(PackLayoutTable(<<SecondScript>>, 110), 1, 20)) }

DirFiles == SingleFontFiles \cup UnrecognizedFiles \cup ShortFiles \cup CollectionFiles

\* ------------------------------------------------------------ the process

Init ==
    /\ font_list = <<>>
    /\ parsers = <<>>
    /\ offset_list = <<>>
    /\ error = "none"
    /\ dialog = [kind |-> "none"]

\* The table records the widget built last shows a button for: every record of
\* every font in the list.
TablesOf(fl) == UNION { { fl[f][t] : t \in DOMAIN fl[f] } : f \in DOMAIN fl }

Tables == TablesOf(font_list)

\* format_table, lines 169-189: the handler a button is connected to, by the
\* decoded tag.
HandlerOf(table) ==
    LET t == decode_u8(table[1], 1, <<>>) IN
    IF ~t.ok THEN "exception"
    ELSE IF t.val = TagName THEN "show_name"
    ELSE IF t.val = TagHead THEN "show_head"
    ELSE IF t.val \in {TagGPOS, TagGSUB} THEN "show_gsub_gpos"
    ELSE "show_not_implemented_message"

\* The widget's constructor: format_table decodes the tag of every record, and
\* a tag that is not UTF-8 ends the constructor with the exception.
WidgetBuilt(fl) ==
    LET bad == { t \in TablesOf(fl) : HandlerOf(t) = "exception" } IN
    IF bad = {} THEN [kind |-> "none"]
    ELSE [kind |-> "exception", table |-> CHOOSE t \in bad : TRUE, exc |-> "UnicodeDecodeError"]

\* DirectoryWidget(filename), lines 143-167: builds a FileParser on the file
\* and a row (format_table) for every table record of the list.
Load(data) ==
    /\ Len(parsers) < MaxLoads
    /\ LET r == FileParserInit(data, font_list) IN
       /\ font_list' = r.font_list
       /\ offset_list' = r.offset_list
       /\ error' = r.error
    /\ parsers' = Append(parsers, data)
    /\ dialog' = WidgetBuilt(FileParserInit(data, font_list).font_list)

LoadFile == \E data \in DirFiles : Load(data)

\* A click on the button of a 'name' table.
ShowName ==
    /\ parsers # <<>>
    /\ \E table \in Tables :
        /\ HandlerOf(table) = "show_name"
        /\ dialog' = show_name(parsers[Len(parsers)], table)
    /\ UNCHANGED <<font_list, parsers, offset_list, error>>

\* A click on the button of a 'GSUB' or 'GPOS' table.
ShowGsubGpos ==
    /\ parsers # <<>>
    /\ \E table \in Tables :
        /\ HandlerOf(table) = "show_gsub_gpos"
        /\ dialog' = show_gsub_gpos(parsers[Len(parsers)], table)
    /\ UNCHANGED <<font_list, parsers, offset_list, error>>

\* The program as __main__ runs it, lines 303-318: one file, then clicks.
LoadNameFile == parsers = <<>> /\ \E data \in NameFiles : Load(data)

LoadLayoutFile == parsers = <<>> /\ \E data \in LayoutFiles : Load(data)

NextName == LoadNameFile \/ ShowName

SpecName == Init /\ [][NextName]_vars

NextLayout == LoadLayoutFile \/ ShowGsubGpos

SpecLayout == Init /\ [][NextLayout]_vars

Next == LoadFile

Spec == Init /\ [][Next]_vars

\* ================================================================ properties

\* The file of the FileParser built last.
LastData == parsers[Len(parsers)]

\* The big-endian 32-bit value whose first byte is the o-th of the file
\* (o counted from 0), written out byte by byte.
BE32(d, o) == d[o + 1] * 16777216 + d[o + 2] * 65536 + d[o + 3] * 256 + d[o + 4]

BE16(d, o) == d[o + 1] * 256 + d[o + 2]

HasSignature(d) == Len(d) >= 4

IsSingleFont(d) == HasSignature(d) /\ BE32(d, 0) \in {1330926671, 65536}

IsCollection(d) == HasSignature(d) /\ BE32(d, 0) = 1953784678

\* A directory at offset o lies in the file: its 12-byte header and the
\* numTables records the header declares.
DirectoryReadable(d, o) == o + 12 <= Len(d) /\ o + 12 + 16 * BE16(d, o + 4) <= Len(d)

\* The i-th record (from 0) of the directory at o, read from its 16 bytes.
RecordAt(d, o, i) ==
    LET r == o + 12 + 16 * i IN
    <<(<<d[r + 1], d[r + 2], d[r + 3], d[r + 4]>>), BE32(d, r + 4), BE32(d, r + 8), BE32(d, r + 12)>>

DirectoryAt(d, o) == [i \in 1..BE16(d, o + 4) |-> RecordAt(d, o, i - 1)]

\* The directories of a collection's offsets array that lie in the file, in
\* the order of the array.
RECURSIVE ReadableDirectories(_, _, _)
ReadableDirectories(d, offsets, k) ==
    IF k > Len(offsets) THEN <<>>
    ELSE (IF DirectoryReadable(d, offsets[k]) THEN <<DirectoryAt(d, offsets[k])>> ELSE <<>>)
             \o ReadableDirectories(d, offsets, k + 1)

\* The offsets array of a collection that holds its header and the array.
HoldsOffsets(d) == Len(d) >= 12 /\ 12 + 4 * BE32(d, 8) <= Len(d)

OffsetsArray(d) == [k \in 1..BE32(d, 8) |-> BE32(d, 12 + 4 * (k - 1))]

\* A step that builds a FileParser.
Loaded == parsers' # parsers

\* C1, as claimed: when a collection is loaded, every font of its offsets
\* array whose directory can be read is added to the font list, in the order
\* of the array, whether it stands before or after a font that cannot be read.
C1_EveryReadableFontDecoded ==
    [][(Loaded /\ IsCollection(parsers'[Len(parsers')]) /\ HoldsOffsets(parsers'[Len(parsers')]))
          => font_list' = font_list \o ReadableDirectories(parsers'[Len(parsers')],
                                          OffsetsArray(parsers'[Len(parsers')]), 1)]_vars

\* C2, as claimed: parse_offset_list returns the one offset 0 for every file
\* that starts with a single-font signature, and for every file that starts
\* with the collection signature returns numFonts offsets.
C2_OffsetsForEverySignedBuffer ==
    \A i \in DOMAIN parsers :
        LET d == parsers[i]
            r == parse_offset_list(d)
        IN /\ IsSingleFont(d) => r = Ok(<<0>>)
           /\ IsCollection(d) =>
                 /\ r.ok
                 /\ Len(r.val) = BE32(d, 8)
                 /\ \A k \in 1..BE32(d, 8) : r.val[k] = BE32(d, 12 + 4 * (k - 1))

\* C2, amended: parse_offset_list returns the one offset 0 for every file that
\* starts with a single-font signature; for every file that starts with the
\* collection signature and holds the 12-byte header and the numFonts offsets
\* after it, it returns exactly numFonts offsets, the k-th being the
\* big-endian value at byte 12 + 4k; and __init__ iterates over that list.
C2_OffsetsOfHeldArray ==
    /\ \A i \in DOMAIN parsers :
        LET d == parsers[i]
            r == parse_offset_list(d)
        IN /\ IsSingleFont(d) => r = Ok(<<0>>)
           /\ (IsCollection(d) /\ HoldsOffsets(d)) =>
                 /\ r.ok
                 /\ Len(r.val) = BE32(d, 8)
                 /\ \A k \in 1..BE32(d, 8) : r.val[k] = BE32(d, 12 + 4 * (k - 1))
    /\ (parsers # <<>> /\ IsCollection(LastData) /\ HoldsOffsets(LastData))
           => offset_list = OffsetsArray(LastData)
    /\ (parsers # <<>> /\ IsSingleFont(LastData)) => offset_list = <<0>>

\* A collection of two different offsets was loaded after a single font.
C2_Witness ==
    /\ Len(parsers) = 2
    /\ IsSingleFont(parsers[1])
    /\ IsCollection(LastData) /\ HoldsOffsets(LastData)
    /\ Len(offset_list) = 2
    /\ offset_list[1] = 5000 /\ offset_list[2] = FontBase

\* C3: loading a file of at least four bytes whose signature is neither a
\* single-font one nor the collection one yields no offsets and no fonts (the
\* font list is left as it was) and no error is raised.
C3_UnrecognizedYieldsNoFonts ==
    [][(Loaded /\ HasSignature(parsers'[Len(parsers')])
               /\ ~IsSingleFont(parsers'[Len(parsers')])
               /\ ~IsCollection(parsers'[Len(parsers')]))
          => /\ parse_offset_list(parsers'[Len(parsers')]) = Ok(<<>>)
             /\ offset_list' = <<>>
             /\ error' = "none"
             /\ font_list' = font_list
             /\ (parsers = <<>> => font_list' = <<>>)]_vars

\* A file that holds a directory under the signature 'true' was loaded first,
\* and the font list is empty.
C3_Witness ==
    /\ Len(parsers) = 1
    /\ HasSignature(LastData) /\ BE32(LastData, 0) = 1953658213
    /\ DirectoryReadable(LastData, 0)
    /\ font_list = <<>> /\ error = "none"

\* C4: for a directory that lies in the file just loaded, at whatever offset,
\* parse_one returns exactly
\* numTables records, the i-th being the (tag, checksum, offset, length) of the
\* 16 bytes at start + 12 + 16*i, in that order, two records of one tag both
\* kept; and these are the directories a load without error adds to the list.
C4_DirectoryAsOnDisk ==
    /\ parsers # <<>> => \A o \in 0..Len(LastData) :
          DirectoryReadable(LastData, o) =>
              LET r == parse_one(LastData, o) IN
              /\ r.ok
              /\ Len(r.val) = BE16(LastData, o + 4)
              /\ \A k \in 1..Len(r.val) : r.val[k] = RecordAt(LastData, o, k - 1)
    /\ (parsers # <<>> /\ error = "none") =>
          /\ Len(font_list) >= Len(offset_list)
          /\ \A k \in 1..Len(offset_list) :
                font_list[Len(font_list) - Len(offset_list) + k]
                    = DirectoryAt(LastData, offset_list[k])

\* A directory of three records was decoded whose tags are not in order
\* ('name' before 'head') and whose first and third records are both 'name'.
C4_Witness ==
    \E f \in DOMAIN font_list :
        /\ Len(font_list[f]) = 3
        /\ font_list[f][1][1] = TagName
        /\ font_list[f][2][1] = TagHead
        /\ font_list[f][3][1] = TagName
        /\ font_list[f][1] # font_list[f][3]

\* C10, as claimed: the font list of every FileParser holds exactly the
\* directories decoded from the file it was built from.
C10_FontListOfOwnFile ==
    \A i \in DOMAIN parsers : font_list = FileParserInit(parsers[i], <<>>).font_list

\* ------------------------------------------------------ the 'name' table

\* The bytes of a table that lies in the file.
TableInFile(d, t) == t[3] + t[4] <= Len(d)

TableBytes(d, t) == [k \in 1..t[4] |-> d[t[3] + k]]

\* The table holds its header and the count of records the header declares.
RecordsHeld(n) == Len(n) >= 6 /\ 6 + 12 * BE16(n, 2) <= Len(n)

\* Field k (1..6: platformId, encodingId, languageId, nameId, length, offset)
\* of record i (from 1).
Field(n, i, k) == BE16(n, 6 + 12 * (i - 1) + 2 * (k - 1))

\* The numbers of the records of platform 3, in record order.
WindowsRecords(n) ==
    SelectSeq([i \in 1..BE16(n, 2) |-> i], LAMBDA i : Field(n, i, 1) = 3)

\* The declared string span of record i lies in the table.
SpanInTable(n, i) == BE16(n, 4) + Field(n, i, 6) + Field(n, i, 5) <= Len(n)

\* The string of record i as the codec of its encoding ID decodes it.
StringOf(n, i) ==
    decode_name(Field(n, i, 2), seg(n, BE16(n, 4) + Field(n, i, 6), Field(n, i, 5)))

EntryOf(n, i) ==
    <<Field(n, i, 1), Field(n, i, 2), Field(n, i, 3), Field(n, i, 4), StringOf(n, i).val>>

\* The entries of the platform-3 records whose bytes decode, in record order.
DecodableEntries(n) ==
    LET w == SelectSeq(WindowsRecords(n), LAMBDA i : StringOf(n, i).ok) IN
    [k \in 1..Len(w) |-> EntryOf(n, w[k])]

\* show_name has run on a 'name' table that lies in the file with all the
\* records its header declares.
NameShown ==
    /\ dialog.kind \in {"name", "exception"}
    /\ TableInFile(LastData, dialog.table)
    /\ RecordsHeld(TableBytes(LastData, dialog.table))

ShownName == TableBytes(LastData, dialog.table)

\* C5, as claimed: when a platform-3 record holds bytes that are invalid for
\* its codec, parse_name drops that entry alone and returns every other
\* decodable platform-3 entry of the table.
C5_OnlyBadEntryDropped ==
    (NameShown /\ \E k \in DOMAIN WindowsRecords(ShownName) :
                      ~StringOf(ShownName, WindowsRecords(ShownName)[k]).ok)
        => /\ dialog.kind = "name"
           /\ dialog.data = DecodableEntries(ShownName)

\* C6, as claimed: when a platform-3 record declares a string span that ends
\* past the end of the table, parse_name fails; no entry is returned that was
\* decoded from a shortened span.
C6_SpanPastTableFails ==
    (NameShown /\ \E k \in DOMAIN WindowsRecords(ShownName) :
                      ~SpanInTable(ShownName, WindowsRecords(ShownName)[k]))
        => dialog.kind = "exception"

\* C7: what parse_name returns is one entry for each record of platform 3 and
\* none for another platform, in record order, each with the record's four
\* identifiers and its decoded string; and it returns, without error, for
\* every table whose platform-3 strings all decode, so a table with no
\* platform-3 record gives the empty list.
C7_PlatformThreeInOrder ==
    /\ dialog.kind = "name" =>
          /\ NameShown
          /\ Len(dialog.data) = Len(WindowsRecords(ShownName))
          /\ \A k \in DOMAIN dialog.data :
                /\ dialog.data[k][1] = 3
                /\ dialog.data[k] = EntryOf(ShownName, WindowsRecords(ShownName)[k])
    /\ (NameShown /\ \A k \in DOMAIN WindowsRecords(ShownName) :
                        StringOf(ShownName, WindowsRecords(ShownName)[k]).ok)
          => /\ dialog.kind = "name"
             /\ (WindowsRecords(ShownName) = <<>> => dialog.data = <<>>)

\* A table of two records, the first of another platform and the second of
\* platform 3, decoded to the one entry of the second.
C7_Witness ==
    /\ dialog.kind = "name"
    /\ NameShown
    /\ BE16(ShownName, 2) = 2
    /\ Field(ShownName, 1, 1) = 1
    /\ Field(ShownName, 2, 1) = 3
    /\ Len(dialog.data) = 1
    /\ dialog.data[1][4] = 2

\* ------------------------------------------------------ GSUB and GPOS

\* The tags of the indices of l_list that are below the FeatureList length,
\* in the order of l_list.
Resolved(f_list, l_list) ==
    LET in == SelectSeq(l_list, LAMBDA l : l < Len(f_list)) IN
    [k \in 1..Len(in) |-> f_list[in[k] + 1]]

Texts(items) == [k \in 1..Len(items) |-> items[k].text]

\* Whether a group shows a DFLT widget for script entry s.
ShowsDefault(s) == s[2] # None /\ s[2][1] # <<>>

\* C8, as claimed: no decoded LangSys carries 65535 as its required feature
\* index; a requiredFeatureIndex of 0xFFFF is decoded as absent.
C8_NoRequired65535 ==
    dialog.kind = "layout" =>
        \A x \in DOMAIN dialog.data[1] : \A y \in DOMAIN dialog.data[1][x][3] :
            dialog.data[1][x][3][y][2] # 65535

====
